---- MODULE Spec2Model ----
(***************************************************************************)
(* A model of GraphAnalyzer (src/graph.py): Erdos-Renyi generation,        *)
(* multi-source BFS with path reconstruction, structural analysis and the  *)
(* command-line driver.                                                    *)
(*                                                                         *)
(* A graph is the pair networkx keeps: the node sequence in insertion      *)
(* order and, per node, its neighbours in insertion order.                 *)
(***************************************************************************)
EXTENDS Integers, Sequences, FiniteSets, TLC

\* Largest number of nodes of a graph of the model.
MaxN == 4

\* Longest list of sources handed to multi_source_bfs.
MaxSources == 2

\* Largest number of nodes of a graph in a run of main().
MaxRunN == 3

\* Largest number of nodes of a graph that is saved to a file or replaced.
MaxIoN == 2

\* Python's None (parent of a BFS source, a missing return value).
None == -1

VARIABLES
    graph,              \* self.graph
    bfs_paths,          \* self.bfs_paths: reference to a mapping object of the heap
    heap,               \* the mapping objects: reference -> (source -> BFS result)
    held,               \* reference a caller kept from an earlier multi_source_bfs
    analysis_results,   \* self.analysis_results
    call,               \* the most recent call: operation, arguments, outcome
    disk,               \* the file save_graph writes
    source, visited, queue, parent, level, bfs_pc, \* one source's BFS loop
    args, main_pc, stages, status                  \* one run of main()

vars == <<graph, bfs_paths, heap, held, analysis_results, call, disk,
          source, visited, queue, parent, level, bfs_pc,
          args, main_pc, stages, status>>

objVars  == <<graph, bfs_paths, heap, held, analysis_results, call>>
loopVars == <<source, visited, queue, parent, level, bfs_pc>>
mainVars == <<args, main_pc, stages, status>>

-----------------------------------------------------------------------------
\* Sequences and sets

Range(s) == {s[i] : i \in 1..Len(s)}

Contains(s, x) == \E i \in 1..Len(s) : s[i] = x

NoDuplicates(s) == \A i, j \in 1..Len(s) : s[i] = s[j] => i = j

Reverse(s) == [i \in 1..Len(s) |-> s[Len(s) + 1 - i]]

\* The injective sequences over S of full length: every enumeration order of S.
Perms(S) == {s \in [1..Cardinality(S) -> S] : \A i, j \in 1..Cardinality(S) : s[i] = s[j] => i = j}

\* range(n)
RangeSeq(n) == [i \in 1..n |-> i - 1]

SeqsUpTo(S, n) == UNION {[1..k -> S] : k \in 0..n}

Max(S) == CHOOSE x \in S : \A y \in S : y <= x

Min(S) == CHOOSE x \in S : \A y \in S : x <= y

RECURSIVE SumOver(_, _)
SumOver(S, f) ==
    IF S = {} THEN 0
    ELSE LET x == CHOOSE y \in S : TRUE IN f[x] + SumOver(S \ {x}, f)

-----------------------------------------------------------------------------
\* The graph store (networkx.Graph as the program uses it)

\* nx.Graph()
EmptyGraph == [nodes |-> <<>>, adj |-> <<>>]

NodeSet(g) == Range(g.nodes)

\* graph.number_of_nodes()
NumberOfNodes(g) == Len(g.nodes)

\* graph.neighbors(node), in enumeration order
Neighbors(g, v) == g.adj[v]

AdjSet(g, v) == Range(g.adj[v])

\* graph.degree(node): a self-loop counts twice
Degree(g, v) == Len(g.adj[v]) + (IF Contains(g.adj[v], v) THEN 1 ELSE 0)

\* graph.edges as a set of unordered pairs
EdgeSet(g) == UNION {{{u, v} : v \in AdjSet(g, u)} : u \in NodeSet(g)}

\* graph.number_of_edges()
NumberOfEdges(g) == Cardinality(EdgeSet(g))

\* graph.add_node(v): a node already present is left alone
AddNode(g, v) ==
    IF v \in NodeSet(g) THEN g
    ELSE [nodes |-> Append(g.nodes, v),
          adj   |-> [x \in NodeSet(g) \cup {v} |-> IF x = v THEN <<>> ELSE g.adj[x]]]

\* graph.add_nodes_from(seq)
RECURSIVE AddNodesFrom(_, _)
AddNodesFrom(g, s) ==
    IF s = <<>> THEN g ELSE AddNodesFrom(AddNode(g, Head(s)), Tail(s))

\* graph.add_edge(u, v): adds missing endpoints; an edge already present is left alone
AddEdge(g, u, v) ==
    LET g1 == AddNode(AddNode(g, u), v)
        g2 == [g1 EXCEPT !.adj[u] = IF Contains(@, v) THEN @ ELSE Append(@, v)]
    IN  [g2 EXCEPT !.adj[v] = IF Contains(@, u) THEN @ ELSE Append(@, u)]

\* The pairs (i, j), i < j, of a node sequence in the order of the nested loops.
PairSeq(nodes) ==
    LET n == Len(nodes)
        RECURSIVE From(_, _)
        From(i, j) ==
            IF i > n THEN <<>>
            ELSE IF j > n THEN From(i + 1, i + 2)
            ELSE <<(<<nodes[i], nodes[j]>>)>> \o From(i, j + 1)
    IN  From(1, 2)

\* The graph with the given node order whose edges, the pairs in E, were added
\* in the order of the node sequence.
RECURSIVE AddEdgesIn(_, _, _)
AddEdgesIn(g, pairs, E) ==
    IF pairs = <<>> THEN g
    ELSE LET p == Head(pairs)
         IN  AddEdgesIn(IF {p[1], p[2]} \in E THEN AddEdge(g, p[1], p[2]) ELSE g,
                        Tail(pairs), E)

GraphOf(nodes, E) == AddEdgesIn(AddNodesFrom(EmptyGraph, nodes), PairSeq(nodes), E)

\* A simple undirected graph: distinct nodes, symmetric adjacency without
\* self-loops and without repeated neighbours.
IsSimpleGraph(g) ==
    /\ \A i, j \in 1..Len(g.nodes) : g.nodes[i] = g.nodes[j] => i = j
    /\ DOMAIN g.adj = NodeSet(g)
    /\ \A v \in NodeSet(g) :
         /\ AdjSet(g, v) \subseteq NodeSet(g) \ {v}
         /\ Cardinality(AdjSet(g, v)) = Len(g.adj[v])
         /\ \A u \in AdjSet(g, v) : v \in AdjSet(g, u)

-----------------------------------------------------------------------------
\* Breadth-first search (multi_source_bfs, the body of its loop over sources)

\* visited = {source}; queue = deque([source]); parent = {source: None}; level = {source: 0}
BFSStart(src) ==
    [visited |-> {src}, queue |-> <<src>>, parent |-> (src :> None), level |-> (src :> 0)]

\* As PopLeft, but leaving the node at the head of the queue.
PopLeftKeep(q) == [node |-> Head(q), rest |-> q]

\* queue.popleft()
PopLeft(q) == [node |-> Head(q), rest |-> Tail(q)]

\* As ExploreNeighbors, but marking the dequeued node where the neighbour is to be marked.
RECURSIVE ExploreNeighborsLateMark(_, _, _)
ExploreNeighborsLateMark(st, node, nbrs) ==
    IF nbrs = <<>> THEN st
    ELSE LET nb == Head(nbrs)
             st1 == IF nb \notin st.visited
                    THEN [visited |-> st.visited \cup {node},
                          queue   |-> Append(st.queue, nb),
                          parent  |-> (nb :> node) @@ st.parent,
                          level   |-> (nb :> st.level[node] + 1) @@ st.level]
                    ELSE st
         IN  ExploreNeighborsLateMark(st1, node, Tail(nbrs))

\* for neighbor in nbrs: if neighbor not in visited: mark, enqueue, set parent and level
RECURSIVE ExploreNeighbors(_, _, _)
ExploreNeighbors(st, node, nbrs) ==
    IF nbrs = <<>> THEN st
    ELSE LET nb == Head(nbrs)
             st1 == IF nb \notin st.visited
                    THEN [visited |-> st.visited \cup {nb},
                          queue   |-> Append(st.queue, nb),
                          parent  |-> (nb :> node) @@ st.parent,
                          level   |-> (nb :> st.level[node] + 1) @@ st.level]
                    ELSE st
         IN  ExploreNeighbors(st1, node, Tail(nbrs))

\* One turn of `while queue`: dequeue a node and explore its neighbours in the
\* order nbrs.
BFSTurn(st, nbrs) ==
    LET d == PopLeft(st.queue)
    IN  ExploreNeighbors([st EXCEPT !.queue = d.rest], d.node, nbrs)

\* The node the next turn dequeues.
NextNode(st) == PopLeft(st.queue).node

\* while queue: ...
RECURSIVE BFSLoop(_, _)
BFSLoop(g, st) ==
    IF st.queue = <<>> THEN st
    ELSE BFSLoop(g, BFSTurn(st, Neighbors(g, NextNode(st))))

\* The result stored for a source once its loop has ended.
BFSResult(st) ==
    [visited |-> st.visited, parent |-> st.parent, level |-> st.level,
     reachable_count |-> Cardinality(st.visited)]

\* The BFS of one source on graph g.
BFSFrom(g, src) == BFSResult(BFSLoop(g, BFSStart(src)))

-----------------------------------------------------------------------------
\* Graph theory the claims are stated in (independent of the search above)

\* The nodes within k hops of s.
RECURSIVE Ball(_, _, _)
Ball(g, s, k) ==
    IF k = 0 THEN {s}
    ELSE LET B == Ball(g, s, k - 1) IN B \cup UNION {AdjSet(g, u) : u \in B}

\* The nodes reachable from s.
Reachable(g, s) == Ball(g, s, NumberOfNodes(g))

\* The hop-count distance from s to a reachable node v.
Distance(g, s, v) == Min({k \in 0..NumberOfNodes(g) : v \in Ball(g, s, k)})

IsConnected(g) == \A u, v \in NodeSet(g) : v \in Reachable(g, u)

Eccentricity(g, s) == Max({Distance(g, s, v) : v \in Reachable(g, s)})

\* The connected components, as a set of node sets.
ComponentSets(g) == {Reachable(g, v) : v \in NodeSet(g)}

\* The well-formed graphs of the model: up to MaxN nodes 0..n-1 in ascending or
\* descending insertion order, any edge set.
NodeOrders(n) == {RangeSeq(n), Reverse(RangeSeq(n))}

\* The unordered pairs of distinct nodes among 0..n-1.
AllPairs(n) == {e \in SUBSET (0..(n - 1)) : Cardinality(e) = 2}

Graphs ==
    UNION {{GraphOf(nodes, E) : nodes \in NodeOrders(n), E \in SUBSET AllPairs(n)}
           : n \in 0..MaxN}

-----------------------------------------------------------------------------
\* Values of the variables a specification leaves alone

\* GraphAnalyzer(): an empty graph, no BFS results, no analysis results
\* A file of the disk: none, or the document save_graph wrote.
NoFile == [kind |-> "missing", graph |-> EmptyGraph]

Written(doc) == [kind |-> "document", doc |-> doc]

NewAnalyzer ==
    /\ disk = NoFile
    /\ graph = EmptyGraph
    /\ bfs_paths = 1
    /\ heap = (1 :> <<>>)
    /\ held = None
    /\ analysis_results = <<>>
    /\ call = [op |-> "init"]

NoLoop ==
    /\ source = None /\ visited = {} /\ queue = <<>>
    /\ parent = <<>> /\ level = <<>> /\ bfs_pc = "idle"

NoMain ==
    /\ args = <<>> /\ main_pc = "idle" /\ stages = <<>> /\ status = None

-----------------------------------------------------------------------------
\* SpecLoop: the BFS of one source, one turn of `while queue` per step
\* (multi_source_bfs, lines 210-234), on any graph and from any of its nodes.
\* graph.neighbors(node) is enumerated in an order drawn afresh at each turn:
\* a node is dequeued at most once, so the draws range over every adjacency
\* order a graph can have.

LoopState == [visited |-> visited, queue |-> queue, parent |-> parent, level |-> level]

InitLoop ==
    /\ disk = NoFile
    /\ graph \in Graphs
    /\ NumberOfNodes(graph) >= 1
    /\ bfs_paths = 1 /\ heap = (1 :> <<>>) /\ held = None
    /\ analysis_results = <<>>
    /\ call = [op |-> "multi_source_bfs"]
    /\ source \in NodeSet(graph)
    /\ visited = BFSStart(source).visited
    /\ queue = BFSStart(source).queue
    /\ parent = BFSStart(source).parent
    /\ level = BFSStart(source).level
    /\ bfs_pc = "loop"
    /\ NoMain

\* while queue: node = queue.popleft(); for neighbor in self.graph.neighbors(node): ...
LoopTurn ==
    /\ bfs_pc = "loop"
    /\ queue # <<>>
    /\ \E nbrs \in Perms(AdjSet(graph, NextNode(LoopState))) :
         LET st == BFSTurn(LoopState, nbrs)
         IN  /\ visited' = st.visited
             /\ queue' = st.queue
             /\ parent' = st.parent
             /\ level' = st.level
    /\ UNCHANGED <<source, bfs_pc>>
    /\ UNCHANGED objVars
    /\ UNCHANGED mainVars
    /\ UNCHANGED disk

\* self.bfs_paths[source] = {'visited': ..., 'parent': ..., 'level': ..., 'reachable_count': ...}
LoopStore ==
    /\ bfs_pc = "loop"
    /\ queue = <<>>
    /\ heap' = [heap EXCEPT ![bfs_paths] = (source :> BFSResult(LoopState)) @@ @]
    /\ bfs_pc' = "stored"
    /\ UNCHANGED <<graph, bfs_paths, held, analysis_results, call>>
    /\ UNCHANGED <<source, visited, queue, parent, level>>
    /\ UNCHANGED mainVars
    /\ UNCHANGED disk

NextLoop == LoopTurn \/ LoopStore

SpecLoop == InitLoop /\ [][NextLoop]_vars

\* The BFS results stored at present.
Stored == heap[bfs_paths]

\* C1: once the BFS of source s is stored, visited is exactly the set of nodes
\* reachable from s, level[s] = 0 and parent[s] = None, every other visited
\* node v has level[v] equal to its hop-count distance from s and a parent that
\* is a neighbour of v one level up, reachable_count is the size of visited,
\* and on a connected graph visited is the whole node set and the largest level
\* is the eccentricity of s; whatever the order neighbours were enumerated in.
C1_BfsResultIsShortestPathTree ==
    bfs_pc = "stored" =>
        LET r == Stored[source]
        IN  /\ r.visited = Reachable(graph, source)
            /\ DOMAIN r.level = r.visited
            /\ DOMAIN r.parent = r.visited
            /\ r.level[source] = 0
            /\ r.parent[source] = None
            /\ \A v \in r.visited \ {source} :
                 /\ r.level[v] = Distance(graph, source, v)
                 /\ r.parent[v] \in AdjSet(graph, v)
                 /\ r.level[r.parent[v]] = r.level[v] - 1
            /\ r.reachable_count = Cardinality(r.visited)
            /\ IsConnected(graph) =>
                 /\ r.visited = NodeSet(graph)
                 /\ Max({r.level[v] : v \in r.visited}) = Eccentricity(graph, source)

\* A stored BFS on four nodes in which a node two hops away has two neighbours
\* one hop away and got the larger of them as its parent.
C1_Witness ==
    /\ bfs_pc = "stored"
    /\ NumberOfNodes(graph) = 4
    /\ \E v \in Stored[source].visited : \E a, b \in AdjSet(graph, v) :
         /\ Stored[source].level[v] = 2
         /\ a < b
         /\ Stored[source].level[a] = 1 /\ Stored[source].level[b] = 1
         /\ Stored[source].parent[v] = b

\* SpecLoopFair: the loop is sequential code that keeps running, so a turn or
\* the store that is possible is eventually taken.
SpecLoopFair == SpecLoop /\ WF_vars(NextLoop)

\* The nodes a step appended to the queue, behind what was left of it.
Enqueued == SubSeq(queue', Len(queue), Len(queue'))

\* One step of the loop: the head of the queue leaves it for good, and the nodes
\* appended are distinct, were not visited before and are exactly the nodes the
\* step marks visited.
VisitsOnce ==
    IF queue = <<>> THEN queue' = <<>> /\ visited' = visited
    ELSE /\ Len(queue') >= Len(queue) - 1
         /\ SubSeq(queue', 1, Len(queue) - 1) = Tail(queue)
         /\ Head(queue) \notin Range(queue')
         /\ NoDuplicates(Enqueued)
         /\ Range(Enqueued) \cap visited = {}
         /\ visited' = visited \cup Range(Enqueued)

\* C12: on every graph, cyclic or not, the loop of a source ends with an empty
\* queue and every reachable node visited; until then the queue holds no node
\* twice and only visited nodes, and each step enqueues only nodes that were
\* not visited, marking exactly those, and removes the head for good: a node
\* is marked, enqueued and dequeued once.
C12_LoopTerminatesVisitingOnce ==
    /\ [](/\ NoDuplicates(queue)
          /\ Range(queue) \subseteq visited
          /\ visited \subseteq Reachable(graph, source))
    /\ [][VisitsOnce]_vars
    /\ <>(bfs_pc = "stored" /\ queue = <<>> /\ visited = Reachable(graph, source))

\* The loop has ended on a connected graph of four nodes that has a cycle.
C12_Witness ==
    /\ bfs_pc = "stored"
    /\ queue = <<>>
    /\ NumberOfNodes(graph) = 4
    /\ IsConnected(graph)
    /\ NumberOfEdges(graph) >= NumberOfNodes(graph)
    /\ visited = NodeSet(graph)

-----------------------------------------------------------------------------
\* multi_source_bfs and get_path

\* The identifiers a caller may pass for a node: the nodes 0..MaxN-1 and MaxN,
\* which is a node of no graph of the model.
Ids == 0..MaxN

\* A reference no live object has.
FreshRef(live) == Min({r \in 1..(Cardinality(live) + 1) : r \notin live})

\* As NewMapping, but going on with the mapping of the invocation before.
KeepMapping(old) == old

\* self.bfs_paths = {}: the mapping the results of this invocation are stored in
NewMapping(old) == <<>>

\* As RunSources, but giving up at the first source that is no node.
RECURSIVE RunSourcesAbort(_, _, _)
RunSourcesAbort(g, m, sources) ==
    IF sources = <<>> THEN m
    ELSE LET s == Head(sources)
         IN  IF s \notin NodeSet(g)
             THEN m
             ELSE RunSourcesAbort(g,
                             [x \in DOMAIN m \cup {s} |-> IF x = s THEN BFSFrom(g, s) ELSE m[x]],
                             Tail(sources))

\* for source in sources: skip a source that is no node, else run its BFS and
\* store the result under the source
RECURSIVE RunSources(_, _, _)
RunSources(g, m, sources) ==
    IF sources = <<>> THEN m
    ELSE LET s == Head(sources)
         IN  IF s \notin NodeSet(g)
             THEN RunSources(g, m, Tail(sources))
             ELSE RunSources(g,
                             [x \in DOMAIN m \cup {s} |-> IF x = s THEN BFSFrom(g, s) ELSE m[x]],
                             Tail(sources))

\* while current is not None: path.append(current); current = parent[current]
RECURSIVE WalkBack(_, _)
WalkBack(par, current) ==
    IF current = None THEN <<>>
    ELSE <<current>> \o WalkBack(par, par[current])

\* What get_path returns: None, or a list of nodes.
NoPath == [is_none |-> TRUE, path |-> <<>>]

PathOf(p) == [is_none |-> FALSE, path |-> p]

\* As GetPath, but without path.reverse().
GetPathUnreversed(paths, s, t) ==
    IF s \notin DOMAIN paths THEN NoPath
    ELSE IF t \notin paths[s].visited THEN NoPath
    ELSE PathOf(WalkBack(paths[s].parent, t))

\* get_path(source, target) on the stored results
GetPath(paths, s, t) ==
    IF s \notin DOMAIN paths THEN NoPath
    ELSE IF t \notin paths[s].visited THEN NoPath
    ELSE PathOf(Reverse(WalkBack(paths[s].parent, t)))

\* multi_source_bfs(sources). With keep, the caller still holds the mapping the
\* invocation before this one left in self.bfs_paths, so that object stays on
\* the heap; without, nothing refers to it any more.
MultiSourceBfs(sources, keep) ==
    LET ref == FreshRef({bfs_paths})
        m   == RunSources(graph, NewMapping(heap[bfs_paths]), sources)
    IN  /\ bfs_paths' = ref
        /\ held' = IF keep THEN bfs_paths ELSE None
        /\ heap' = [r \in {ref} \cup (IF keep THEN {bfs_paths} ELSE {}) |->
                       IF r = ref THEN m ELSE heap[r]]
        /\ call' = [op |-> "multi_source_bfs", sources |-> sources, ret |-> ref]

multi_source_bfs(sources, keep) ==
    /\ MultiSourceBfs(sources, keep)
    /\ UNCHANGED <<graph, analysis_results>>
    /\ UNCHANGED loopVars
    /\ UNCHANGED disk
    /\ UNCHANGED mainVars

get_path(s, t) ==
    /\ call' = [op |-> "get_path", source |-> s, target |-> t, ret |-> GetPath(heap[bfs_paths], s, t)]
    /\ UNCHANGED <<graph, bfs_paths, heap, held, analysis_results>>
    /\ UNCHANGED loopVars
    /\ UNCHANGED disk
    /\ UNCHANGED mainVars

\* An analyzer holding any graph, before any call.
LoadedAnalyzer ==
    /\ disk = NoFile
    /\ graph \in Graphs
    /\ bfs_paths = 1 /\ heap = (1 :> <<>>) /\ held = None
    /\ analysis_results = <<>>
    /\ call = [op |-> "init"]

\* SpecTraversal: on an analyzer holding any graph, multi_source_bfs is called
\* with any list of sources and get_path is then, or straight away, called with
\* any source and target. (get_path changes nothing it reads, and invocation
\* after invocation of multi_source_bfs is SpecInvocations.)
InitTraversal == LoadedAnalyzer /\ NoLoop /\ NoMain

NextTraversal ==
    \/ /\ call.op = "init"
       /\ \E sources \in SeqsUpTo(Ids, MaxSources) : multi_source_bfs(sources, FALSE)
    \/ /\ call.op # "get_path"
       /\ \E s \in Ids, t \in Ids : get_path(s, t)

SpecTraversal == InitTraversal /\ [][NextTraversal]_vars

\* SpecInvocations: invocation after invocation of multi_source_bfs on an
\* analyzer holding any graph, the caller keeping the mapping of the invocation
\* before.
NextInvocations == \E sources \in SeqsUpTo(Ids, MaxSources) : multi_source_bfs(sources, TRUE)

SpecInvocations == InitTraversal /\ [][NextInvocations]_vars

\* The listed sources that are nodes of the graph.
ValidSources(g, sources) == Range(sources) \cap NodeSet(g)

\* C2: get_path(s, t) returns a list that starts with s, ends with t, has
\* level[t] + 1 entries and steps along edges of the graph whenever BFS was run
\* from s and t is reachable from s; it returns None when BFS was not run from
\* s or t is not in the visited set of s.
C2_GetPathIsShortestPath ==
    call.op = "get_path" =>
        LET s == call.source
            t == call.target
            p == call.ret.path
        IN  /\ (s \in DOMAIN Stored /\ t \in Reachable(graph, s)) =>
                 /\ ~call.ret.is_none
                 /\ Len(p) = Stored[s].level[t] + 1
                 /\ p[1] = s
                 /\ p[Len(p)] = t
                 /\ \A i \in 1..(Len(p) - 1) : {p[i], p[i + 1]} \in EdgeSet(graph)
            /\ (s \notin DOMAIN Stored \/ t \notin Stored[s].visited) => call.ret.is_none

\* get_path has returned a path of three edges.
C2_Witness ==
    /\ call.op = "get_path"
    /\ ~call.ret.is_none
    /\ Len(call.ret.path) = 4
    /\ call.source # call.target

\* C4: multi_source_bfs returns an empty mapping for an empty source list, and
\* otherwise a mapping whose keys are exactly the listed sources that are nodes
\* of the graph, each with the result it gets as the only source, wherever the
\* sources that are no nodes stand in the list.
C4_MissingSourcesAreSkipped ==
    call.op = "multi_source_bfs" =>
        LET m == heap[call.ret]
        IN  /\ call.sources = <<>> => m = <<>>
            /\ DOMAIN m = ValidSources(graph, call.sources)
            /\ \A s \in DOMAIN m :
                 /\ m[s] = BFSFrom(graph, s)
                 /\ m[s].visited = Reachable(graph, s)

\* multi_source_bfs has returned the result of a node listed after a source
\* that is no node of the graph.
C4_Witness ==
    /\ call.op = "multi_source_bfs"
    /\ Len(call.sources) = 2
    /\ call.sources[1] \notin NodeSet(graph)
    /\ call.sources[2] \in DOMAIN heap[call.ret]
    /\ heap[call.ret][call.sources[2]].reachable_count > 1

\* C10: after every invocation of multi_source_bfs the stored results are those
\* of that invocation alone, so get_path(s, t) returns None for every s that is
\* no valid source of it, also when the invocation before ran BFS from s; and
\* the mapping the invocation before returned is the same afterwards.
C10_StoredResultsAreTheLatest ==
    /\ [](call.op = "multi_source_bfs" =>
            /\ DOMAIN Stored = ValidSources(graph, call.sources)
            /\ \A s \in Ids \ ValidSources(graph, call.sources) : \A t \in Ids :
                 GetPath(Stored, s, t).is_none)
    /\ [][/\ held' = bfs_paths
          /\ heap'[held'] = heap[bfs_paths]
          /\ bfs_paths' # bfs_paths]_vars

\* An invocation has dropped a source of the invocation before, whose mapping
\* the caller still holds.
C10_Witness ==
    /\ call.op = "multi_source_bfs"
    /\ held # None
    /\ \E s \in DOMAIN heap[held] : s \notin DOMAIN Stored /\ heap[held][s].reachable_count > 1
    /\ Stored # <<>>

-----------------------------------------------------------------------------
\* analyze_graph

\* A float that is a ratio of two integers, den > 0.
Ratio(num, den) == [num |-> num, den |-> den]

\* a = b for two ratios
RatioEq(a, b) == a.num * b.den = b.num * a.den

\* list(nx.connected_components(g)): the components in the order of their
\* first node
RECURSIVE ComponentsFrom(_, _, _)
ComponentsFrom(g, nodes, seen) ==
    IF nodes = <<>> THEN <<>>
    ELSE IF Head(nodes) \in seen THEN ComponentsFrom(g, Tail(nodes), seen)
    ELSE LET c == Reachable(g, Head(nodes))
         IN  <<c>> \o ComponentsFrom(g, Tail(nodes), seen \cup c)

ConnectedComponents(g) == ComponentsFrom(g, g.nodes, {})

\* max(components, key=len): the first of the largest
LargestComponent(components) ==
    LET best == Max({Cardinality(components[i]) : i \in 1..Len(components)})
        first == Min({i \in 1..Len(components) : Cardinality(components[i]) = best})
    IN  components[first]

\* graph.subgraph(c)
Subgraph(g, c) ==
    [nodes |-> SelectSeq(g.nodes, LAMBDA v : v \in c),
     adj   |-> [v \in c |-> SelectSeq(g.adj[v], LAMBDA u : u \in c)]]

\* graph.to_directed(): an arc each way per edge
Arcs(g) == {<<u, v>> : u \in NodeSet(g), v \in NodeSet(g)} \cap
           UNION {{<<u, v>> : v \in AdjSet(g, u)} : u \in NodeSet(g)}

\* nx.simple_cycles of a directed graph: the closed walks through distinct
\* nodes, a pair of opposite arcs included
SimpleCycles(nodes, arcs) ==
    {c \in UNION {Perms(S) : S \in SUBSET nodes \ {{}}} :
        \A i \in 1..Len(c) : <<c[i], c[(i % Len(c)) + 1]>> \in arcs}

\* cycle_gen = nx.simple_cycles(self.graph.to_directed()); has_cycle is set as
\* soon as the generator yields. The generator does not raise, so the fallback
\* of the except branch is never taken.
HasCycle(g) == SimpleCycles(NodeSet(g), Arcs(g)) # {}

\* nx.is_connected(g): raises on the graph without nodes
IsConnectedRaises(g) == NumberOfNodes(g) = 0

\* nx.average_shortest_path_length(g) of a connected graph with a node: 0 for a
\* single node, else the sum of the distances over the ordered pairs by n(n-1)
AverageShortestPathLength(g) ==
    LET n == NumberOfNodes(g)
        total == SumOver(NodeSet(g) \X NodeSet(g),
                         [p \in NodeSet(g) \X NodeSet(g) |-> Distance(g, p[1], p[2])])
    IN  IF n = 1 THEN Ratio(0, 1) ELSE Ratio(total, n * (n - 1))

NoFloat == [is_none |-> TRUE, value |-> Ratio(0, 1)]

Float(r) == [is_none |-> FALSE, value |-> r]

\* As DisconnectedAverage, but leaving avg_shortest_path at None.
DisconnectedAverageNone(g, components) == NoFloat

\* The else branch of `if nx.is_connected(self.graph)`: the average of the
\* largest component if it has more than one node
DisconnectedAverage(g, components) ==
    LET largest == LargestComponent(components)
    IN  IF Cardinality(largest) > 1
        THEN Float(AverageShortestPathLength(Subgraph(g, largest)))
        ELSE NoFloat

\* if n_nodes <= 1: density = 0.0, else n_edges / (n_nodes * (n_nodes - 1) / 2)
Density(n_nodes, n_edges) ==
    IF n_nodes <= 1 THEN Ratio(0, 1)
    ELSE Ratio(2 * n_edges, n_nodes * (n_nodes - 1))

\* Does analyze_graph raise? Only nx.is_connected, outside every try, can.
AnalyzeRaises(g) == IsConnectedRaises(g)

\* The dictionary analyze_graph stores and returns (the sample of cycles, whose
\* order is the library's, left out).
AnalyzeGraph(g) ==
    LET components == ConnectedComponents(g)
    IN  [n_nodes |-> NumberOfNodes(g),
         n_edges |-> NumberOfEdges(g),
         n_components |-> Len(components),
         components |-> components,
         isolated_nodes |-> SelectSeq(g.nodes, LAMBDA v : Degree(g, v) = 0),
         has_cycle |-> HasCycle(g),
         degrees |-> [v \in NodeSet(g) |-> Degree(g, v)],
         density |-> Density(NumberOfNodes(g), NumberOfEdges(g)),
         avg_shortest_path |->
             IF IsConnected(g) THEN Float(AverageShortestPathLength(g))
             ELSE DisconnectedAverage(g, components)]

Analyze ==
    IF AnalyzeRaises(graph)
    THEN /\ call' = [op |-> "analyze_graph", raised |-> TRUE]
         /\ UNCHANGED analysis_results
    ELSE /\ analysis_results' = AnalyzeGraph(graph)
         /\ call' = [op |-> "analyze_graph", raised |-> FALSE]

analyze_graph ==
    /\ Analyze
    /\ UNCHANGED <<graph, bfs_paths, heap, held>>
    /\ UNCHANGED loopVars
    /\ UNCHANGED disk
    /\ UNCHANGED mainVars

\* SpecAnalysis: analyze_graph on an analyzer holding any graph.
NextAnalysis == analyze_graph

SpecAnalysis == InitTraversal /\ [][NextAnalysis]_vars

\* The edges of g inside the node set c.
EdgesWithin(g, c) == {e \in EdgeSet(g) : e \subseteq c}

\* C3: the cycle flag analyze_graph returns is true exactly when some
\* connected component has at least as many edges as nodes (so it is false on
\* a disjoint union of trees).
C3_CycleFlagIsEdgeCountTest ==
    (call.op = "analyze_graph" /\ ~call.raised) =>
        (analysis_results.has_cycle <=>
            \E c \in ComponentSets(graph) :
                Cardinality(EdgesWithin(graph, c)) >= Cardinality(c))

\* C5: analyze_graph does not raise on any simple graph, the graphs with no
\* node and with one node included, and returns density 0.0 when there are at
\* most one node, no degrees when there is no node, and no average shortest
\* path where it is undefined.
C5_AnalyzeNeverFails ==
    call.op = "analyze_graph" =>
        /\ ~call.raised
        /\ NumberOfNodes(graph) <= 1 => RatioEq(analysis_results.density, Ratio(0, 1))
        /\ NumberOfNodes(graph) = 0 =>
             /\ analysis_results.degrees = <<>>
             /\ analysis_results.avg_shortest_path.is_none

\* C6 as claimed: on a graph with two or more components avg_shortest_path is
\* None.
C6_DisconnectedAverageIsNone ==
    (call.op = "analyze_graph" /\ ~call.raised /\ Cardinality(ComponentSets(graph)) >= 2) =>
        analysis_results.avg_shortest_path.is_none

\* The mean hop-count distance over the ordered pairs of distinct nodes of c.
MeanDistance(g, c) ==
    Ratio(SumOver({p \in c \X c : p[1] # p[2]},
                  [p \in c \X c |-> Distance(g, p[1], p[2])]),
          Cardinality(c) * (Cardinality(c) - 1))

\* C6: on a graph with two or more components avg_shortest_path is None
\* exactly when no component has two nodes, and is otherwise the mean distance
\* within a component of the largest size.
C6_DisconnectedAverageIsOfLargest ==
    (call.op = "analyze_graph" /\ ~call.raised /\ Cardinality(ComponentSets(graph)) >= 2) =>
        LET a == analysis_results.avg_shortest_path
            size == Max({Cardinality(c) : c \in ComponentSets(graph)})
        IN  /\ a.is_none <=> size = 1
            /\ ~a.is_none =>
                 \E c \in ComponentSets(graph) :
                    /\ Cardinality(c) = size
                    /\ RatioEq(a.value, MeanDistance(graph, c))

\* analyze_graph on a graph of a path of three nodes and a fourth node apart:
\* the average stored is 8/6.
C6_Witness ==
    /\ call.op = "analyze_graph"
    /\ ~call.raised
    /\ analysis_results.n_components = 2
    /\ analysis_results.n_edges = 2
    /\ ~analysis_results.avg_shortest_path.is_none
    /\ RatioEq(analysis_results.avg_shortest_path.value, Ratio(4, 3))

-----------------------------------------------------------------------------
\* Text: str(), int() and the character references of networkx's GML writer
\* and reader, on texts kept as sequences of one-character strings

\* The characters ' ' to '~', in code order from 32. The place of the backquote
\* (96), which no text of the model holds, is kept by the empty string.
Printable ==
    <<" ", "!", "\"", "#", "$", "%", "&", "'", "(", ")", "*", "+", ",", "-", ".", "/",
      "0", "1", "2", "3", "4", "5", "6", "7", "8", "9", ":", ";", "<", "=", ">", "?",
      "@", "A", "B", "C", "D", "E", "F", "G", "H", "I", "J", "K", "L", "M", "N", "O",
      "P", "Q", "R", "S", "T", "U", "V", "W", "X", "Y", "Z", "[", "\\", "]", "^", "_",
      "", "a", "b", "c", "d", "e", "f", "g", "h", "i", "j", "k", "l", "m", "n", "o",
      "p", "q", "r", "s", "t", "u", "v", "w", "x", "y", "z", "{", "|", "}", "~">>

IsPrintable(ch) == \E i \in 1..Len(Printable) : Printable[i] = ch

\* ord(ch): a printable character or the tab
Ord(ch) ==
    IF IsPrintable(ch) THEN 31 + (CHOOSE i \in 1..Len(Printable) : Printable[i] = ch)
    ELSE 9

\* chr(code): a code outside ' '..'~' is the tab, the one such character of the model
Chr(code) == IF code >= 32 /\ code <= 126 THEN Printable[code - 31] ELSE "\t"

IsDigit(ch) == IsPrintable(ch) /\ Ord(ch) >= 48 /\ Ord(ch) <= 57

IsLetter(ch) ==
    IsPrintable(ch) /\ \/ Ord(ch) >= 65 /\ Ord(ch) <= 90
                       \/ Ord(ch) >= 97 /\ Ord(ch) <= 122

IsAlnum(ch) == IsDigit(ch) \/ IsLetter(ch)

DigitValue(ch) == Ord(ch) - 48

\* str(n) for n >= 0
RECURSIVE DecimalOfNat(_)
DecimalOfNat(n) ==
    IF n < 10 THEN <<Chr(48 + n)>>
    ELSE DecimalOfNat(n \div 10) \o <<Chr(48 + (n % 10))>>

\* str(n) of an integer
StrOfInt(n) == IF n < 0 THEN <<"-">> \o DecimalOfNat(-n) ELSE DecimalOfNat(n)

\* text.strip(), for the whitespace of the model
RECURSIVE Strip(_)
Strip(text) ==
    IF text = <<>> THEN text
    ELSE IF Head(text) \in {" ", "\t"} THEN Strip(Tail(text))
    ELSE IF text[Len(text)] \in {" ", "\t"} THEN Strip(SubSeq(text, 1, Len(text) - 1))
    ELSE text

\* The value of a run of digits and underscores.
RECURSIVE DigitsValue(_, _)
DigitsValue(text, acc) ==
    IF text = <<>> THEN acc
    ELSE IF Head(text) = "_" THEN DigitsValue(Tail(text), acc)
    ELSE DigitsValue(Tail(text), 10 * acc + DigitValue(Head(text)))

\* int(text): surrounding whitespace, a sign, then digits with single
\* underscores between them; anything else raises ValueError.
ParseInt(text) ==
    LET t == Strip(text)
        signed == t # <<>> /\ Head(t) \in {"+", "-"}
        body == IF signed THEN Tail(t) ELSE t
        ok == /\ body # <<>>
              /\ \A i \in 1..Len(body) : IsDigit(body[i]) \/ body[i] = "_"
              /\ IsDigit(body[1]) /\ IsDigit(body[Len(body)])
              /\ \A i \in 1..(Len(body) - 1) : ~(body[i] = "_" /\ body[i + 1] = "_")
    IN  IF ~ok THEN [raised |-> TRUE, value |-> 0]
        ELSE [raised |-> FALSE,
              value |-> IF signed /\ Head(t) = "-" THEN -DigitsValue(body, 0)
                        ELSE DigitsValue(body, 0)]

\* networkx.readwrite.gml.escape: '&', '"' and every character outside
\* ' '..'~' becomes the reference &#code;
RECURSIVE Escape(_)
Escape(text) ==
    IF text = <<>> THEN <<>>
    ELSE LET ch == Head(text)
         IN  (IF ch \in {"&", "\""} \/ ~IsPrintable(ch)
              THEN <<"&", "#">> \o DecimalOfNat(Ord(ch)) \o <<";">>
              ELSE <<ch>>) \o Escape(Tail(text))

\* The length of the run of digits at the head of text.
RECURSIVE DigitRun(_)
DigitRun(text) ==
    IF text = <<>> \/ ~IsDigit(Head(text)) THEN 0 ELSE 1 + DigitRun(Tail(text))

\* The length of the run of letters and digits at the head of text.
RECURSIVE AlnumRun(_)
AlnumRun(text) ==
    IF text = <<>> \/ ~IsAlnum(Head(text)) THEN 0 ELSE 1 + AlnumRun(Tail(text))

\* html.entities.name2codepoint, for the names the model knows
EntityNames == {<<"a", "m", "p">>, <<"q", "u", "o", "t">>, <<"l", "t">>, <<"g", "t">>}

EntityCode(name) ==
    IF name = <<"a", "m", "p">> THEN 38
    ELSE IF name = <<"q", "u", "o", "t">> THEN 34
    ELSE IF name = <<"l", "t">> THEN 60
    ELSE 62

\* The reference at the head of text, which starts with '&': its length and the
\* text it stands for; length 0 if the pattern &(name|#digits); does not match.
\* A name that is no entity stands for itself.
Reference(text) ==
    LET rest == Tail(text)
        numeric == rest # <<>> /\ Head(rest) = "#"
        run == IF numeric THEN DigitRun(Tail(rest)) ELSE AlnumRun(rest)
        last == IF numeric THEN run + 3 ELSE run + 2
        body == IF numeric THEN SubSeq(text, 3, run + 2) ELSE SubSeq(text, 2, run + 1)
    IN  IF run = 0 \/ Len(text) < last \/ text[last] # ";" THEN [length |-> 0, text |-> <<>>]
        ELSE IF numeric THEN [length |-> last, text |-> <<Chr(DigitsValue(body, 0))>>]
        ELSE IF body \in EntityNames THEN [length |-> last, text |-> <<Chr(EntityCode(body))>>]
        ELSE [length |-> last, text |-> SubSeq(text, 1, last)]

\* networkx.readwrite.gml.unescape: one pass, left to right, over the references
RECURSIVE Unescape(_)
Unescape(text) ==
    IF text = <<>> THEN <<>>
    ELSE IF Head(text) = "&" /\ Reference(text).length > 0
    THEN Reference(text).text \o Unescape(SubSeq(text, Reference(text).length + 1, Len(text)))
    ELSE <<Head(text)>> \o Unescape(Tail(text))

-----------------------------------------------------------------------------
\* Node identifiers that are not the integers 0..n-1, and the GML file
\* save_graph writes and load_graph reads

\* A node identifier is a Python integer, which the model keeps as itself, or a
\* Python string, which the model keeps as StringBase + i for the i-th text of
\* StringTexts. StringBase itself is a string with a text outside the table.
StringBase == 100

\* The strings of the model: none of them is the text of an integer.
StringTexts == <<(<<"a">>), <<"a", " ", "b">>, <<"&", "#", "3", "4", ";">>>>

IsString(v) == v >= StringBase

\* str(node)
Str(v) == IF IsString(v) THEN StringTexts[v - StringBase] ELSE StrOfInt(v)

\* The string with the given text.
StringOf(text) ==
    IF \E i \in 1..Len(StringTexts) : StringTexts[i] = text
    THEN StringBase + (CHOOSE i \in 1..Len(StringTexts) : StringTexts[i] = text)
    ELSE StringBase

\* graph.edges(): per node in order, the neighbours that no earlier node has
\* reported
EdgeSeq(g) ==
    LET RECURSIVE From(_)
        From(i) ==
            IF i > Len(g.nodes) THEN <<>>
            ELSE LET u == g.nodes[i]
                     earlier == {g.nodes[k] : k \in 1..(i - 1)}
                     mine == SelectSeq(g.adj[u], LAMBDA v : v \notin earlier)
                 IN  [k \in 1..Len(mine) |-> <<u, mine[k]>>] \o From(i + 1)
    IN  From(1)

\* graph.add_edges_from(pairs)
RECURSIVE AddEdgesFrom(_, _)
AddEdgesFrom(g, pairs) ==
    IF pairs = <<>> THEN g
    ELSE AddEdgesFrom(AddEdge(g, Head(pairs)[1], Head(pairs)[2]), Tail(pairs))

\* nx.relabel_nodes(g, mapping): a new graph of the mapped nodes, then of the
\* mapped edges
RelabelNodes(g, mapping) ==
    AddEdgesFrom(AddNodesFrom(EmptyGraph, [i \in 1..Len(g.nodes) |-> mapping[g.nodes[i]]]),
                 [i \in 1..Len(EdgeSeq(g)) |->
                     <<mapping[EdgeSeq(g)[i][1]], mapping[EdgeSeq(g)[i][2]]>>])

\* The key of a node attribute: 'component_id', f'distance_from_{source}' or
\* f'parent_from_{source}', kept as the literal part and the text of the source.
AttrKey(name, tail) == [name |-> name, tail |-> tail]

\* node_to_component[node]
ComponentId(g, node) ==
    LET components == ConnectedComponents(g)
    IN  (CHOOSE i \in 1..Len(components) : node \in components[i]) - 1

\* The attributes save_graph gives a node, each value as str(value).
NodeAttrs(g, paths, node) ==
    LET withLevel == {s \in DOMAIN paths : node \in DOMAIN paths[s].level}
        withParent == {s \in DOMAIN paths :
                          node \in DOMAIN paths[s].parent /\ paths[s].parent[node] # None}
        keys == {AttrKey("component_id", <<>>)}
                \cup {AttrKey("distance_from_", Str(s)) : s \in withLevel}
                \cup {AttrKey("parent_from_", Str(s)) : s \in withParent}
        SourceOf(k) == CHOOSE s \in DOMAIN paths : Str(s) = k.tail
    IN  [k \in keys |->
            IF k.name = "component_id" THEN StrOfInt(ComponentId(g, node))
            ELSE IF k.name = "distance_from_" THEN StrOfInt(paths[SourceOf(k)].level[node])
            ELSE Str(paths[SourceOf(k)].parent[node])]

\* string_graph: the nodes as str(node) with their attributes, then the edges.
\* Adding a node that is present merges the attributes into those it has.
StringGraph(g, paths) ==
    LET RECURSIVE AttrsFrom(_, _)
        AttrsFrom(i, attrs) ==
            IF i > Len(g.nodes) THEN attrs
            ELSE LET t == Str(g.nodes[i])
                     mine == NodeAttrs(g, paths, g.nodes[i])
                     merged == IF t \in DOMAIN attrs THEN mine @@ attrs[t] ELSE mine
                 IN  AttrsFrom(i + 1, [x \in DOMAIN attrs \cup {t} |->
                                          IF x = t THEN merged ELSE attrs[x]])
        nodes == AddNodesFrom(EmptyGraph, [i \in 1..Len(g.nodes) |-> Str(g.nodes[i])])
    IN  [graph |-> AddEdgesFrom(nodes, [i \in 1..Len(EdgeSeq(g)) |->
                                           <<Str(EdgeSeq(g)[i][1]), Str(EdgeSeq(g)[i][2])>>]),
         attrs |-> AttrsFrom(1, <<>>)]

\* generate_gml's valid_keys, ^[A-Za-z][0-9A-Za-z_]*$: the literal part of a key
\* starts with a letter, so the key matches if the text of the source does
ValidKey(key) == \A i \in 1..Len(key.tail) : IsAlnum(key.tail[i]) \/ key.tail[i] = "_"

\* The position of x in the sequence s.
IndexOf(s, x) == CHOOSE i \in 1..Len(s) : s[i] = x

\* nx.write_gml(string_graph, filename): per node its id, its label and its
\* attributes, then per edge the ids of its ends. A key that is not valid
\* raises where it is met and leaves the file cut short before that node.
WriteGml(sg) ==
    LET nodes == sg.graph.nodes
        bad == {i \in 1..Len(nodes) : \E k \in DOMAIN sg.attrs[nodes[i]] : ~ValidKey(k)}
        written == IF bad = {} THEN Len(nodes) ELSE Min(bad) - 1
    IN  [raised |-> bad # {},
         doc |-> [nodes |-> [i \in 1..written |->
                               [id |-> i - 1, label |-> Escape(nodes[i]),
                                attrs |-> [k \in DOMAIN sg.attrs[nodes[i]] |->
                                              Escape(sg.attrs[nodes[i]][k])]]],
                  edges |-> IF bad # {} THEN <<>>
                            ELSE [i \in 1..Len(EdgeSeq(sg.graph)) |->
                                     <<IndexOf(nodes, EdgeSeq(sg.graph)[i][1]) - 1,
                                       IndexOf(nodes, EdgeSeq(sg.graph)[i][2]) - 1>>],
                  complete |-> bad = {}]]

\* nx.read_gml(filename): a file cut short or with a label held twice raises;
\* else the graph of the ids and edges, relabelled by the unescaped labels.
\* (No label of the model is "()" or "[]", which the reader takes for an empty
\* tuple and an empty list.)
ReadGml(doc) ==
    LET labels == [i \in 1..Len(doc.nodes) |-> Unescape(doc.nodes[i].label)]
        ids == [i \in 1..Len(doc.nodes) |-> doc.nodes[i].id]
        byId == AddEdgesFrom(AddNodesFrom(EmptyGraph, ids), doc.edges)
    IN  IF ~doc.complete \/ ~NoDuplicates(labels) THEN [raised |-> TRUE, graph |-> EmptyGraph]
        ELSE [raised |-> FALSE,
              graph |-> RelabelNodes(byId, [id \in Range(ids) |-> labels[IndexOf(ids, id)]])]

\* mapping[node] = int(node), or node itself if int raises
IntOrLabel(text) == IF ParseInt(text).raised THEN StringOf(text) ELSE ParseInt(text).value

\* load_graph on a file save_graph wrote
LoadDocument(g, doc) ==
    LET r == ReadGml(doc)
    IN  IF r.raised THEN [raised |-> TRUE, graph |-> g]
        ELSE [raised |-> FALSE,
              graph |-> RelabelNodes(r.graph, [t \in NodeSet(r.graph) |-> IntOrLabel(t)])]

-----------------------------------------------------------------------------
\* create_erdos_renyi_graph, load_graph, save_graph

\* math.log(n) in thousandths, rounded down, for n = 1..8
LnMilli == <<0, 693, 1098, 1386, 1609, 1791, 1945, 2079>>

\* The values of c the model passes.
CValues == {-1, 0, 1, 2, 3}

\* The values random.random() returns in the model, in thousandths: [0, 1).
Draws == {0, 500, 999}

\* p = (c * math.log(n)) / n, for n >= 1
EdgeProbability(n, c) == Ratio(c * LnMilli[n], 1000 * n)

\* if p > 1: p = 1.0
Clamp(p) == IF p.num > p.den THEN Ratio(1, 1) ELSE p

\* As DrawHits, with the comparison turned round.
DrawHitsInverted(r, p) == r * p.den > 1000 * p.num

\* random.random() < p, for a draw of r thousandths
DrawHits(r, p) == r * p.den < 1000 * p.num

\* As CreateRaises, without the check of p.
CreateRaisesOnSizeOnly(n, c) == n <= 0

\* The two raise statements: n <= 0, p < 0
CreateRaises(n, c) == n <= 0 \/ EdgeProbability(n, c).num < 0

\* The graph built after validation: nodes range(n), and for i < j in loop
\* order the edge (i, j) if its draw is below p.
ErdosRenyi(n, c, draws) ==
    LET p == Clamp(EdgeProbability(n, c))
    IN  GraphOf(RangeSeq(n), {e \in AllPairs(n) : DrawHits(draws[e], p)})

\* create_erdos_renyi_graph(n, c) with the given draws, on self.graph = g:
\* whether it raised, and self.graph afterwards.
CreateErdosRenyiGraph(g, n, c, draws) ==
    IF CreateRaises(n, c) THEN [raised |-> TRUE, graph |-> g]
    ELSE [raised |-> FALSE, graph |-> ErdosRenyi(n, c, draws)]

\* A file named by --input: absent, not a GML graph, or the GML of a graph.
Files ==
    {[kind |-> "missing", graph |-> EmptyGraph], [kind |-> "malformed", graph |-> EmptyGraph]}
    \cup {[kind |-> "gml", graph |-> g] : g \in {h \in Graphs : NumberOfNodes(h) <= MaxRunN}}

\* The node identifiers --multi_BFS is given in a run: the nodes a graph of the
\* run can have and one more.
RunIds == 0..MaxRunN

\* load_graph(filename) on self.graph = g: both raises come before the
\* assignment of a graph read in full.
LoadGraph(g, file) ==
    IF file.kind = "document" THEN LoadDocument(g, file.doc)
    ELSE IF file.kind # "gml" THEN [raised |-> TRUE, graph |-> g]
    ELSE [raised |-> FALSE, graph |-> file.graph]

\* save_graph(filename) raises on a graph without nodes and when the file
\* cannot be written.
SaveRaises(g, writable) == NumberOfNodes(g) = 0 \/ ~writable

\* save_graph(filename) with self.bfs_paths = paths, on a disk holding file: a
\* raise of the writer is raised again, after the file was opened for writing.
SaveGraph(g, paths, writable, file) ==
    IF SaveRaises(g, writable) THEN [raised |-> TRUE, disk |-> file]
    ELSE LET w == WriteGml(StringGraph(g, paths))
         IN  [raised |-> w.raised, disk |-> Written(w.doc)]

save_graph(writable) ==
    LET r == SaveGraph(graph, heap[bfs_paths], writable, disk)
    IN  /\ disk' = r.disk
        /\ call' = [op |-> "save_graph", raised |-> r.raised]
        /\ UNCHANGED <<graph, bfs_paths, heap, held, analysis_results>>
        /\ UNCHANGED loopVars
        /\ UNCHANGED mainVars

load_graph(file) ==
    LET r == LoadGraph(graph, file)
    IN  /\ graph' = r.graph
        /\ call' = [op |-> "load_graph", raised |-> r.raised]
        /\ UNCHANGED <<bfs_paths, heap, held, analysis_results, disk>>
        /\ UNCHANGED loopVars
        /\ UNCHANGED mainVars

\* As create_erdos_renyi_graph, but emptying the stored BFS results and the
\* analysis results when the graph is replaced.
create_erdos_renyi_graph_resetting(n, c, draws) ==
    LET r == CreateErdosRenyiGraph(graph, n, c, draws)
    IN  /\ graph' = r.graph
        /\ call' = [op |-> "create_erdos_renyi_graph", n |-> n, c |-> c, raised |-> r.raised]
        /\ heap' = IF r.raised THEN heap ELSE [heap EXCEPT ![bfs_paths] = <<>>]
        /\ analysis_results' = IF r.raised THEN analysis_results ELSE <<>>
        /\ UNCHANGED <<bfs_paths, held>>
        /\ UNCHANGED loopVars
        /\ UNCHANGED disk
        /\ UNCHANGED mainVars

\* create_erdos_renyi_graph(n, c): the draws of random.random() are an input
create_erdos_renyi_graph(n, c, draws) ==
    LET r == CreateErdosRenyiGraph(graph, n, c, draws)
    IN  /\ graph' = r.graph
        /\ call' = [op |-> "create_erdos_renyi_graph", n |-> n, c |-> c, raised |-> r.raised]
        /\ UNCHANGED <<bfs_paths, heap, held, analysis_results>>
        /\ UNCHANGED loopVars
        /\ UNCHANGED disk
        /\ UNCHANGED mainVars

\* SpecGenerator: create_erdos_renyi_graph called on a new analyzer, with any
\* n, any c of the model and any draws.
InitGenerator == NewAnalyzer /\ NoLoop /\ NoMain

NextGenerator ==
    /\ call.op = "init"
    /\ \E n \in -1..MaxN, c \in CValues :
         \E draws \in [AllPairs(n) -> Draws] : create_erdos_renyi_graph(n, c, draws)

SpecGenerator == InitGenerator /\ [][NextGenerator]_vars

\* C7: for n >= 1 and c with p >= 0, whatever the draws, the generator succeeds
\* and leaves a graph whose nodes are exactly 0..n-1 and whose edges are
\* distinct pairs of distinct nodes, each held once; all n(n-1)/2 pairs when p
\* is clamped to 1.0, none when p = 0.
C7_GeneratedGraphIsSimple ==
    call.op = "create_erdos_renyi_graph" =>
        LET n == call.n
            c == call.c
        IN  /\ (n >= 1 /\ (c >= 0 \/ n = 1)) => ~call.raised
            /\ ~call.raised =>
                 /\ n >= 1
                 /\ NumberOfNodes(graph) = n
                 /\ NodeSet(graph) = 0..(n - 1)
                 /\ IsSimpleGraph(graph)
                 /\ EdgeSet(graph) \subseteq AllPairs(n)
                 /\ SumOver(NodeSet(graph), [v \in NodeSet(graph) |-> Len(graph.adj[v])])
                        = 2 * NumberOfEdges(graph)
                 /\ c * LnMilli[n] > 1000 * n =>
                        /\ EdgeSet(graph) = AllPairs(n)
                        /\ 2 * NumberOfEdges(graph) = n * (n - 1)
                 /\ (c = 0 \/ n = 1) => EdgeSet(graph) = {}

\* The generator made the complete graph on four nodes from a clamped p.
C7_Witness ==
    /\ call.op = "create_erdos_renyi_graph"
    /\ ~call.raised
    /\ call.n = 4
    /\ call.c = 3
    /\ NumberOfEdges(graph) = 6

-----------------------------------------------------------------------------
\* SpecRoundTrip: on an analyzer holding any graph of integers and strings,
\* multi_source_bfs may be called once, save_graph is called, and load_graph is
\* called on the file save_graph was to write.

\* The node identifiers of the graphs that are saved.
NodeIds == {-2, 0, 1, 10} \cup {StringBase + i : i \in 1..Len(StringTexts)}

\* The graphs of up to MaxIoN of these nodes, in any order of insertion.
LabelledGraphs ==
    LET NodeSeqs == UNION {{q \in [1..n -> NodeIds] : NoDuplicates(q)} : n \in 0..MaxIoN}
    IN  UNION {{GraphOf(nodes, E) : E \in SUBSET {e \in SUBSET Range(nodes) : Cardinality(e) = 2}}
               : nodes \in NodeSeqs}

InitRoundTrip ==
    /\ disk = NoFile
    /\ graph \in LabelledGraphs
    /\ bfs_paths = 1 /\ heap = (1 :> <<>>) /\ held = None
    /\ analysis_results = <<>>
    /\ call = [op |-> "init"]
    /\ NoLoop /\ NoMain

NextRoundTrip ==
    \/ /\ call.op = "init"
       /\ \E sources \in SeqsUpTo(NodeSet(graph), MaxSources) : multi_source_bfs(sources, FALSE)
    \/ /\ call.op \in {"init", "multi_source_bfs"}
       /\ \E writable \in BOOLEAN : save_graph(writable)
    \/ /\ call.op = "save_graph"
       /\ load_graph(disk)

SpecRoundTrip == InitRoundTrip /\ [][NextRoundTrip]_vars

\* h is g up to a renaming of its nodes that keeps every integer.
SameUpToRelabelling(g, h) ==
    \E f \in [NodeSet(g) -> NodeSet(h)] :
        /\ \A u, v \in NodeSet(g) : f[u] = f[v] => u = v
        /\ \A v \in NodeSet(g) : ~IsString(v) => f[v] = v
        /\ EdgeSet(h) = {{f[v] : v \in e} : e \in EdgeSet(g)}

\* A load_graph of the file the save_graph before it opened for writing.
RoundTripStep ==
    call.op = "save_graph" /\ disk.kind = "document" /\ call'.op = "load_graph"

\* C11: whatever BFS results are stored, save_graph of a graph with nodes to a
\* file that can be written, followed by load_graph of that file, succeeds and
\* leaves a graph with as many nodes and the same edges up to a renaming of
\* the nodes that keeps the integers.
C11_SaveThenLoadIsTheGraph ==
    [][RoundTripStep =>
          /\ ~call.raised
          /\ ~call'.raised
          /\ NumberOfNodes(graph') = NumberOfNodes(graph)
          /\ SameUpToRelabelling(graph, graph')]_vars

-----------------------------------------------------------------------------
\* SpecFrames: on an analyzer holding any graph of up to MaxIoN nodes,
\* multi_source_bfs and analyze_graph are called, the graph is then replaced by
\* create_erdos_renyi_graph or load_graph, and get_path or save_graph is called
\* on what is left.

IoGraphs == {g \in Graphs : NumberOfNodes(g) <= MaxIoN}

IoFiles ==
    {[kind |-> "missing", graph |-> EmptyGraph], [kind |-> "malformed", graph |-> EmptyGraph]}
    \cup {[kind |-> "gml", graph |-> g] : g \in IoGraphs}

IoIds == 0..MaxIoN

InitFrames ==
    /\ disk = NoFile
    /\ graph \in IoGraphs
    /\ bfs_paths = 1 /\ heap = (1 :> <<>>) /\ held = None
    /\ analysis_results = <<>>
    /\ call = [op |-> "init"]
    /\ NoLoop /\ NoMain

NextFrames ==
    \/ /\ call.op = "init"
       /\ \E sources \in SeqsUpTo(NodeSet(graph), MaxSources) : multi_source_bfs(sources, FALSE)
    \/ /\ call.op = "multi_source_bfs"
       /\ analyze_graph
    \/ /\ call.op = "analyze_graph"
       /\ \E n \in -1..MaxIoN, c \in CValues :
            \E draws \in [AllPairs(n) -> Draws] : create_erdos_renyi_graph(n, c, draws)
    \/ /\ call.op = "analyze_graph"
       /\ \E file \in IoFiles : load_graph(file)
    \/ /\ call.op \in {"create_erdos_renyi_graph", "load_graph"}
       /\ \E s \in IoIds, t \in IoIds : get_path(s, t)
    \/ /\ call.op \in {"create_erdos_renyi_graph", "load_graph"}
       /\ \E writable \in BOOLEAN : save_graph(writable)

SpecFrames == InitFrames /\ [][NextFrames]_vars

\* C13: create_erdos_renyi_graph and load_graph leave the stored BFS results and
\* the analysis results as they were, and the graph too when they raise;
\* analyze_graph, get_path and save_graph leave the nodes and edges of the
\* graph and the stored BFS results as they were; and get_path answers from
\* the stored results alone, whatever graph the analyzer holds by then.
C13_DerivedResultsAreSnapshots ==
    [][/\ call'.op \in {"create_erdos_renyi_graph", "load_graph"} =>
            /\ bfs_paths' = bfs_paths
            /\ heap'[bfs_paths'] = heap[bfs_paths]
            /\ analysis_results' = analysis_results
            /\ call'.raised => graph' = graph
       /\ call'.op \in {"analyze_graph", "get_path", "save_graph"} =>
            /\ graph'.nodes = graph.nodes
            /\ EdgeSet(graph') = EdgeSet(graph)
            /\ bfs_paths' = bfs_paths
            /\ heap'[bfs_paths'] = heap[bfs_paths]
       /\ call'.op = "get_path" =>
            LET s == call'.source
                t == call'.target
                known == s \in DOMAIN Stored /\ t \in Stored[s].visited
            IN  /\ call'.ret.is_none <=> ~known
                /\ known =>
                     /\ Len(call'.ret.path) = Stored[s].level[t] + 1
                     /\ call'.ret.path[1] = s
                     /\ call'.ret.path[Len(call'.ret.path)] = t]_vars

\* After the graph was replaced, get_path returned a path along an edge the
\* graph does not have, and the analysis results still count the edges of the
\* graph that was replaced.
C13_Witness ==
    /\ call.op = "get_path"
    /\ ~call.ret.is_none
    /\ Len(call.ret.path) = 2
    /\ {call.ret.path[1], call.ret.path[2]} \notin EdgeSet(graph)
    /\ analysis_results # <<>>
    /\ analysis_results.n_edges # NumberOfEdges(graph)

-----------------------------------------------------------------------------
\* SpecMain: one run of main(), a step per stage. An option is drawn at the
\* stage that reads it.

NotGiven == [given |-> FALSE]

InitMain ==
    /\ NewAnalyzer
    /\ NoLoop
    /\ args = <<>>
    /\ main_pc = "parse"
    /\ stages = <<>>
    /\ status = None

Log(stage, ok) == Append(stages, [stage |-> stage, ok |-> ok])

\* args = parser.parse_args() and the two checks of --input against
\* --create_random_graph; parser.error exits with status 2.
MainParse ==
    /\ main_pc = "parse"
    /\ \E input \in {NotGiven} \cup {[given |-> TRUE, file |-> f] : f \in Files},
          create \in {NotGiven} \cup
                     {[given |-> TRUE, n_parses |-> TRUE, n |-> n, c |-> c] :
                          n \in -1..MaxRunN, c \in CValues} \cup
                     {[given |-> TRUE, n_parses |-> FALSE, n |-> 0, c |-> 0]} :
         /\ args' = [input |-> input, create_random_graph |-> create]
         /\ IF input.given = create.given
            THEN main_pc' = "exit" /\ status' = 2
            ELSE main_pc' = "load" /\ UNCHANGED status
    /\ UNCHANGED stages
    /\ UNCHANGED objVars
    /\ UNCHANGED loopVars
    /\ UNCHANGED disk

\* if args.input: analyzer.load_graph(...) elif args.create_random_graph: ...;
\* an exception of either makes main return 1.
MainLoadOrCreate ==
    /\ main_pc = "load"
    /\ IF args.input.given
       THEN LET r == LoadGraph(graph, args.input.file)
            IN  /\ graph' = r.graph
                /\ stages' = Log("load", ~r.raised)
                /\ IF r.raised THEN main_pc' = "exit" /\ status' = 1
                   ELSE main_pc' = "bfs" /\ UNCHANGED status
       ELSE LET a == args.create_random_graph
            IN  IF ~a.n_parses
                THEN /\ stages' = Log("create", FALSE)
                     /\ main_pc' = "exit" /\ status' = 1
                     /\ UNCHANGED graph
                ELSE \E draws \in [AllPairs(a.n) -> Draws] :
                        LET r == CreateErdosRenyiGraph(graph, a.n, a.c, draws)
                        IN  /\ graph' = r.graph
                            /\ stages' = Log("create", ~r.raised)
                            /\ IF r.raised THEN main_pc' = "exit" /\ status' = 1
                               ELSE main_pc' = "bfs" /\ UNCHANGED status
    /\ UNCHANGED <<bfs_paths, heap, held, analysis_results, call>>
    /\ UNCHANGED args
    /\ UNCHANGED loopVars
    /\ UNCHANGED disk

\* if args.multi_BFS: analyzer.multi_source_bfs(args.multi_BFS)
MainBfs ==
    /\ main_pc = "bfs"
    /\ \E opt \in {NotGiven} \cup
                  {[given |-> TRUE, nodes |-> l] : l \in SeqsUpTo(RunIds, MaxSources) \ {<<>>}} :
         /\ args' = [x \in DOMAIN args \cup {"multi_BFS"} |->
                        IF x = "multi_BFS" THEN opt ELSE args[x]]
         /\ IF opt.given
            THEN MultiSourceBfs(opt.nodes, FALSE) /\ stages' = Log("bfs", TRUE)
            ELSE UNCHANGED <<bfs_paths, heap, held, call, stages>>
    /\ main_pc' = "analyze"
    /\ UNCHANGED <<graph, analysis_results, status>>
    /\ UNCHANGED loopVars
    /\ UNCHANGED disk

\* if args.analyze: analyzer.analyze_graph(); an exception is printed
MainAnalyze ==
    /\ main_pc = "analyze"
    /\ \E opt \in BOOLEAN :
         /\ args' = [x \in DOMAIN args \cup {"analyze"} |->
                        IF x = "analyze" THEN opt ELSE args[x]]
         /\ IF opt
            THEN Analyze /\ stages' = Log("analyze", ~AnalyzeRaises(graph))
            ELSE UNCHANGED <<analysis_results, call, stages>>
    /\ main_pc' = "save"
    /\ UNCHANGED <<graph, bfs_paths, heap, held, status>>
    /\ UNCHANGED loopVars
    /\ UNCHANGED disk

\* if args.output: analyzer.save_graph(args.output); an exception is printed
MainSave ==
    /\ main_pc = "save"
    /\ \E opt \in {NotGiven} \cup {[given |-> TRUE, writable |-> w] : w \in BOOLEAN} :
         /\ args' = [x \in DOMAIN args \cup {"output"} |->
                        IF x = "output" THEN opt ELSE args[x]]
         /\ IF opt.given
            THEN LET r == SaveGraph(graph, heap[bfs_paths], opt.writable, disk)
                 IN  stages' = Log("save", ~r.raised) /\ disk' = r.disk
            ELSE UNCHANGED <<stages, disk>>
    /\ main_pc' = "plot"
    /\ UNCHANGED status
    /\ UNCHANGED objVars
    /\ UNCHANGED loopVars

\* if args.plot: analyzer.visualize(...); then return 0
MainPlot ==
    /\ main_pc = "plot"
    /\ \E opt \in BOOLEAN :
         /\ args' = [x \in DOMAIN args \cup {"plot"} |->
                        IF x = "plot" THEN opt ELSE args[x]]
         /\ IF opt THEN stages' = Log("plot", TRUE) ELSE UNCHANGED stages
    /\ main_pc' = "exit"
    /\ status' = 0
    /\ UNCHANGED objVars
    /\ UNCHANGED loopVars
    /\ UNCHANGED disk

NextMain ==
    \/ MainParse
    \/ MainLoadOrCreate
    \/ MainBfs
    \/ MainAnalyze
    \/ MainSave
    \/ MainPlot

SpecMain == InitMain /\ [][NextMain]_vars

\* Stage `stage` was run / was run and ended in an exception.
Ran(stage) == \E i \in 1..Len(stages) : stages[i].stage = stage

Failed(stage) == \E i \in 1..Len(stages) : stages[i].stage = stage /\ ~stages[i].ok

Succeeded(stage) == \E i \in 1..Len(stages) : stages[i].stage = stage /\ stages[i].ok

\* C8: create_erdos_renyi_graph raises when n <= 0 and when p < 0 (c < 0 with
\* n >= 2), leaving the analyzer's graph as it was; and after a failure of the
\* generator or of load_graph main has returned a non-zero status with no BFS,
\* analysis, save or plot stage run.
C8_GeneratorFailureIsFatal ==
    /\ (Ran("create") /\ args.create_random_graph.n_parses) =>
         LET n == args.create_random_graph.n
             c == args.create_random_graph.c
         IN  (n <= 0 \/ (n >= 2 /\ c < 0)) => Failed("create")
    /\ (Failed("create") \/ Failed("load")) =>
         /\ graph = EmptyGraph
         /\ main_pc = "exit"
         /\ status \notin {0, None}
         /\ Len(stages) = 1
         /\ Stored = <<>>
         /\ analysis_results = <<>>

\* main has returned 1 after the generator refused a negative p.
C8_Witness ==
    /\ Failed("create")
    /\ args.create_random_graph.n >= 2
    /\ args.create_random_graph.c < 0
    /\ main_pc = "exit"
    /\ status = 1

\* C9: after a save error the run ends with a non-zero status and without the
\* plot stage.
C9_SaveErrorIsFatal ==
    (main_pc = "exit" /\ Failed("save")) => (status # 0 /\ ~Ran("plot"))

====
